---- MODULE Spec2Model ----
(***************************************************************************)
(* Model of backuptool.py: a content-addressed snapshot store kept in an   *)
(* SQLite database with three tables                                       *)
(*   snapshots(id AUTOINCREMENT, timestamp)                                *)
(*   blobs(hash PRIMARY KEY, content, size)                                *)
(*   files(snapshot_id, path, blob_hash)                                   *)
(* and the operations snapshot, restore and prune of class BackupTool.     *)
(*                                                                         *)
(* Paths are sequences of path components.  File contents are sequences    *)
(* of bytes.  The database a connection has committed is `db`; the         *)
(* statements a connection has executed since its implicit BEGIN are in    *)
(* `tx` until commit() publishes them.                                     *)
(***************************************************************************)
EXTENDS Integers, Sequences, FiniteSets, TLC

VARIABLES
    fs,        \* source tree: the regular files, a set of [path, content]
    out,       \* output directory of restore: [exists, dirs, files]
    db,        \* committed database: [snapshots, files, blobs, seq]
    tx,        \* working copy of the connection inside an open transaction
    proc,      \* positions of a snapshot() call and of a prune() call that run
               \* statement by statement, each in its own process
    last,      \* history: the last operation, its inputs and what it reported
    captured,  \* history: per live snapshot, the path -> bytes read at creation
    issued     \* history: every snapshot id a committed snapshot ever had

vars == <<fs, out, db, tx, proc, last, captured, issued>>

(***************************************************************************)
(* Bounds and input domains                                                *)
(***************************************************************************)
\* largest snapshot id the model lets AUTOINCREMENT hand out
MaxSnapshots == 3
\* the same where restore and the output directory are part of the run
MaxRestoreSnapshots == 2
\* the same where the clock advances between snapshots
MaxTimeSnapshots == 2

SrcRoot == <<"src">>
SrcFiles == {<<"src", "f1">>, <<"src", "sub", "f2">>}
\* target_directory arguments: the root, a subdirectory, a path that is a
\* regular file when it exists, and a path that never exists
Targets == {<<"src">>, <<"src", "sub">>, <<"src", "f1">>, <<"nodir">>}
OutRoot == <<"out">>
Contents == {<<>>, <<1>>}
\* what the user writes into the source tree: either content at the top
\* level, and the empty file or a copy of the other content in the
\* subdirectory
SrcWrites == {[path |-> <<"src", "f1">>, content |-> <<>>],
              [path |-> <<"src", "f1">>, content |-> <<1>>],
              [path |-> <<"src", "sub", "f2">>, content |-> <<1>>]}
\* readings of datetime.now() formatted to the second
Timestamps == {"t1"}
\* the same where the clock advances between snapshots
ClockReadings == {"t1", "t2"}

(***************************************************************************)
(* Helpers                                                                 *)
(***************************************************************************)
Max(S) == CHOOSE x \in S : \A y \in S : y <= x

IsPrefix(p, q) == Len(p) <= Len(q) /\ SubSeq(q, 1, Len(p)) = p

\* all orders in which a finite set can be enumerated
RECURSIVE Orders(_)
Orders(S) ==
    IF S = {} THEN {<<>>}
    ELSE UNION {{<<x>> \o o : o \in Orders(S \ {x})} : x \in S}

\* ascending list of a set of integers (a table scan in rowid order)
RECURSIVE SortedSeq(_)
SortedSeq(S) ==
    IF S = {} THEN <<>>
    ELSE LET m == CHOOSE x \in S : \A y \in S : x <= y
         IN <<m>> \o SortedSeq(S \ {m})

Range(s) == {s[i] : i \in 1..Len(s)}

(***************************************************************************)
(* File system: a set of files [path, content], one per path               *)
(***************************************************************************)
PathsOf(files) == {e.path : e \in files}

ContentOf(files, p) == (CHOOSE e \in files : e.path = p).content

PutFile(files, p, c) == {e \in files : e.path # p} \cup {[path |-> p, content |-> c]}

\* os.path.isdir: the source root always exists; a subdirectory exists
\* while a file lives below it
IsDir(fsys, p) ==
    \/ p = SrcRoot
    \/ \E f \in PathsOf(fsys) : IsPrefix(p, f) /\ Len(p) < Len(f)

\* os.walk(target_directory): the files below target; a target that is not
\* a directory raises inside scandir, which os.walk swallows (onerror=None)
WalkFiles(fsys, target) ==
    IF IsDir(fsys, target)
    THEN {f \in PathsOf(fsys) : IsPrefix(target, f) /\ Len(target) < Len(f)}
    ELSE {}

\* variant: os.path.basename(file_path), the directory part is lost
RelPathBasename(file_path, target) == <<file_path[Len(file_path)]>>

\* os.path.relpath(file_path, target_directory) for file_path below target
RelPath(file_path, target) == SubSeq(file_path, Len(target) + 1, Len(file_path))

\* os.path.join(output_directory, path)
JoinPath(dir, path) == dir \o path

\* os.path.dirname
DirName(p) == SubSeq(p, 1, Len(p) - 1)

\* hashlib.sha256(content).hexdigest(): a deterministic, collision-free
\* function of the bytes
Sha256(content) == <<"sha256", content>>

(***************************************************************************)
(* Database statements                                                     *)
(***************************************************************************)
EmptyDb == [snapshots |-> {}, files |-> {}, blobs |-> <<>>, seq |-> 0]

SnapshotIds(d) == {s.id : s \in d.snapshots}

\* variant: INTEGER PRIMARY KEY without AUTOINCREMENT, one more than the
\* largest rowid now in the table
NextRowidNoAutoincrement(d) == Max({0} \cup SnapshotIds(d)) + 1

\* INTEGER PRIMARY KEY AUTOINCREMENT: one more than the largest rowid the
\* table ever held (sqlite_sequence), never a rowid of a deleted row
NextRowid(d) == Max({d.seq} \cup SnapshotIds(d)) + 1

\* variant: the timestamp is written to every row of the table
InsertSnapshotTouchAll(d, timestamp) ==
    LET id == NextRowid(d)
    IN [d EXCEPT !.snapshots = {[id |-> i, timestamp |-> timestamp] :
                                    i \in SnapshotIds(d) \cup {id}},
                 !.seq = id]

\* INSERT INTO snapshots (timestamp) VALUES (?)
InsertSnapshot(d, timestamp) ==
    LET id == NextRowid(d)
    IN [d EXCEPT !.snapshots = @ \cup {[id |-> id, timestamp |-> timestamp]},
                 !.seq = id]

\* variant: the lookup never finds a row
HasBlobNever(d, blob_hash) == FALSE

\* SELECT 1 FROM blobs WHERE hash = ?
HasBlob(d, blob_hash) == \E i \in 1..Len(d.blobs) : d.blobs[i].hash = blob_hash

\* INSERT INTO blobs (hash, content, size) VALUES (?, ?, ?)
InsertBlob(d, blob_hash, content) ==
    [d EXCEPT !.blobs = Append(@, [hash |-> blob_hash, content |-> content,
                                   size |-> Len(content)])]

\* INSERT INTO files (snapshot_id, path, blob_hash) VALUES (?, ?, ?)
InsertFile(d, snapshot_id, rel_path, blob_hash) ==
    [d EXCEPT !.files = @ \cup {[snapshot_id |-> snapshot_id, path |-> rel_path,
                                 blob_hash |-> blob_hash]}]

\* variant: the blob is inserted without looking it up first
SnapshotFileNoLookup(d, snapshot_id, target, file_path, content) ==
    LET rel_path == RelPath(file_path, target)
        blob_hash == Sha256(content)
    IN InsertFile(InsertBlob(d, blob_hash, content), snapshot_id, rel_path, blob_hash)

\* body of the loop of snapshot() for one file whose read succeeded
SnapshotFile(d, snapshot_id, target, file_path, content) ==
    LET rel_path == RelPath(file_path, target)
        blob_hash == Sha256(content)
        d1 == IF ~HasBlob(d, blob_hash) THEN InsertBlob(d, blob_hash, content) ELSE d
    IN InsertFile(d1, snapshot_id, rel_path, blob_hash)

\* variant: a failed read ends the loop (break instead of continue)
RECURSIVE SnapshotLoopBreak(_, _, _, _, _, _)
SnapshotLoopBreak(d, snapshot_id, target, fsys, order, unreadable) ==
    IF order = <<>> \/ Head(order) \in unreadable THEN d
    ELSE SnapshotLoopBreak(SnapshotFile(d, snapshot_id, target, Head(order),
                                        ContentOf(fsys, Head(order))),
                           snapshot_id, target, fsys, Tail(order), unreadable)

\* the loop of snapshot() over the files in the order os.walk yields them;
\* a file whose open/read raises is reported and skipped
RECURSIVE SnapshotLoop(_, _, _, _, _, _)
SnapshotLoop(d, snapshot_id, target, fsys, order, unreadable) ==
    IF order = <<>> THEN d
    ELSE LET f == Head(order)
             d1 == IF f \in unreadable THEN d
                   ELSE SnapshotFile(d, snapshot_id, target, f, ContentOf(fsys, f))
         IN SnapshotLoop(d1, snapshot_id, target, fsys, Tail(order), unreadable)

\* snapshot(target_directory) up to and including commit()
SnapshotDb(d, target, timestamp, fsys, order, unreadable) ==
    LET snapshot_id == NextRowid(d)   \* cur.lastrowid
        d0 == InsertSnapshot(d, timestamp)
    IN SnapshotLoop(d0, snapshot_id, target, fsys, order, unreadable)

\* variant: SELECT id FROM snapshots, the WHERE clause forgotten
ToDeleteAll(d, snapshot_id) == SortedSeq(SnapshotIds(d))

\* SELECT id FROM snapshots WHERE id <= ?   (prune's to_delete list)
ToDelete(d, snapshot_id) == SortedSeq({i \in SnapshotIds(d) : i <= snapshot_id})

\* variant: DELETE FROM files WHERE snapshot_id = ?
DeleteFilesEqual(d, snapshot_id) ==
    [d EXCEPT !.files = {f \in @ : ~(f.snapshot_id = snapshot_id)}]

\* DELETE FROM files WHERE snapshot_id <= ?
DeleteFiles(d, snapshot_id) ==
    [d EXCEPT !.files = {f \in @ : ~(f.snapshot_id <= snapshot_id)}]

\* variant: DELETE FROM snapshots WHERE id < ?
DeleteSnapshotsBelow(d, snapshot_id) ==
    [d EXCEPT !.snapshots = {s \in @ : ~(s.id < snapshot_id)}]

\* DELETE FROM snapshots WHERE id <= ?
DeleteSnapshots(d, snapshot_id) ==
    [d EXCEPT !.snapshots = {s \in @ : ~(s.id <= snapshot_id)}]

\* variant: DELETE FROM blobs WHERE hash IN (SELECT DISTINCT blob_hash FROM files)
DeleteReferencedBlobs(d) ==
    LET referenced == {f.blob_hash : f \in d.files}
        Keep(b) == b.hash \notin referenced
    IN [d EXCEPT !.blobs = SelectSeq(@, Keep)]

\* DELETE FROM blobs WHERE hash NOT IN (SELECT DISTINCT blob_hash FROM files)
DeleteUnreferencedBlobs(d) ==
    LET referenced == {f.blob_hash : f \in d.files}
        Keep(b) == b.hash \in referenced
    IN [d EXCEPT !.blobs = SelectSeq(@, Keep)]

\* variant: the DELETE FROM blobs statement is missing
PruneDbNoSweep(d, snapshot_id) ==
    IF ToDelete(d, snapshot_id) = <<>> THEN d
    ELSE DeleteSnapshots(DeleteFiles(d, snapshot_id), snapshot_id)

\* prune(snapshot_id) up to and including commit(); an empty to_delete
\* list returns before any statement that writes
PruneDb(d, snapshot_id) ==
    IF ToDelete(d, snapshot_id) = <<>> THEN d
    ELSE DeleteUnreferencedBlobs(DeleteSnapshots(DeleteFiles(d, snapshot_id), snapshot_id))

(***************************************************************************)
(* restore                                                                 *)
(***************************************************************************)
NoOut == [exists |-> FALSE, dirs |-> {}, files |-> {}]

\* os.makedirs(p, exist_ok=True) below the output directory: p and every
\* missing ancestor of p
MakeDirs(o, p) ==
    [o EXCEPT !.exists = TRUE,
              !.dirs = @ \cup {SubSeq(p, 1, n) : n \in (Len(OutRoot) + 1)..Len(p)}]

\* variant: SELECT content FROM blobs, the WHERE clause forgotten
BlobRowsAll(d, blob_hash) == d.blobs

\* SELECT content FROM blobs WHERE hash = ?  followed by fetchone()
BlobRows(d, blob_hash) ==
    LET Match(b) == b.hash = blob_hash IN SelectSeq(d.blobs, Match)

\* variant: open(out_path, "ab"), the bytes are appended to an existing file
WriteOutAppend(o, out_path, content) ==
    [o EXCEPT !.files =
        PutFile(@, out_path,
                (IF out_path \in PathsOf(@) THEN ContentOf(@, out_path) ELSE <<>>)
                    \o content)]

\* open(out_path, "wb").write(content)
WriteOut(o, out_path, content) ==
    [o EXCEPT !.files = PutFile(@, out_path, content)]

\* body of the loop of restore() for one row (path, blob_hash)
RestoreRow(d, o, output_directory, row) ==
    LET out_path == JoinPath(output_directory, row.path)
        o1 == MakeDirs(o, DirName(out_path))
        blob_rows == BlobRows(d, row.blob_hash)
    IN IF blob_rows = <<>> THEN o1     \* "Error: missing blob", continue
       ELSE WriteOut(o1, out_path, blob_rows[1].content)

\* variant: a missing blob ends the loop (return instead of continue)
RECURSIVE RestoreLoopAbort(_, _, _, _)
RestoreLoopAbort(d, o, output_directory, rows) ==
    IF rows = {} THEN o
    ELSE LET row == CHOOSE r \in rows : TRUE
         IN IF BlobRows(d, row.blob_hash) = <<>>
            THEN RestoreRow(d, o, output_directory, row)
            ELSE RestoreLoopAbort(d, RestoreRow(d, o, output_directory, row),
                                  output_directory, rows \ {row})

\* the loop of restore() over the rows of the snapshot
RECURSIVE RestoreLoop(_, _, _, _)
RestoreLoop(d, o, output_directory, rows) ==
    IF rows = {} THEN o
    ELSE LET row == CHOOSE r \in rows : TRUE
         IN RestoreLoop(d, RestoreRow(d, o, output_directory, row),
                        output_directory, rows \ {row})

\* variant: the output directory is made before the snapshot is looked up
RestoreOutMkdirFirst(d, o, snapshot_id, output_directory) ==
    LET o1 == IF ~o.exists THEN MakeDirs(o, output_directory) ELSE o
        rows == {f \in d.files : f.snapshot_id = snapshot_id}
    IN IF snapshot_id \notin SnapshotIds(d) THEN o1
       ELSE RestoreLoop(d, o1, output_directory, rows)

\* restore(snapshot_id, output_directory): the output directory afterwards
RestoreOut(d, o, snapshot_id, output_directory) ==
    IF snapshot_id \notin SnapshotIds(d) THEN o    \* "Snapshot not found."
    ELSE LET o1 == IF ~o.exists THEN MakeDirs(o, output_directory) ELSE o
             rows == {f \in d.files : f.snapshot_id = snapshot_id}
         IN RestoreLoop(d, o1, output_directory, rows)

\* the "Error: missing blob <hash> for file <path>" lines restore() prints
MissingReports(d, snapshot_id) ==
    IF snapshot_id \notin SnapshotIds(d) THEN {}
    ELSE {<<f.blob_hash, f.path>> :
            f \in {g \in d.files : g.snapshot_id = snapshot_id
                                    /\ BlobRows(d, g.blob_hash) = <<>>}}

(***************************************************************************)
(* Views used by the properties                                            *)
(***************************************************************************)
\* the files strictly below a directory, by path relative to it
Tree(files, dir) ==
    LET below == {e \in files : IsPrefix(dir, e.path) /\ Len(dir) < Len(e.path)}
    IN {[path |-> SubSeq(e.path, Len(dir) + 1, Len(e.path)), content |-> e.content] :
            e \in below}

\* (path, blob_hash) of the file entries of one snapshot
Entries(d, snapshot_id) ==
    {<<f.path, f.blob_hash>> : f \in {g \in d.files : g.snapshot_id = snapshot_id}}

BlobHashes(d) == {d.blobs[i].hash : i \in 1..Len(d.blobs)}

Restrict(f, S) == [x \in S |-> f[x]]

\* what a snapshot of target reads: the tree below target without the files
\* whose read fails
CapturedTree(fsys, target, unreadable) ==
    Tree({e \in fsys : e.path \in WalkFiles(fsys, target) \ unreadable}, target)

(***************************************************************************)
(* Initial state: a fresh database file after _init_db, an empty source    *)
(* root, no output directory                                               *)
(***************************************************************************)
Idle == [pc |-> "idle", snapshot_id |-> 0, target |-> <<>>, timestamp |-> "",
         order |-> <<>>, queue |-> <<>>, unreadable |-> {},
         ppc |-> "idle", threshold |-> 0, to_delete |-> <<>>, seen_seq |-> 0]

NoOp == [tick |-> FALSE, op |-> "init", target |-> <<>>, id |-> 0,
         unreadable |-> {}, reported |-> <<>>, found |-> FALSE, fresh |-> FALSE,
         nblobs |-> 0, again |-> "no", missing |-> {}]

Did(op) == [NoOp EXCEPT !.tick = ~last.tick, !.op = op]

\* whether the operation before this call of op was the same operation,
\* with the same or with another snapshot id
Again(op, snapshot_id) ==
    IF last.op # op THEN "no"
    ELSE IF last.id = snapshot_id THEN "same" ELSE "other"

Init ==
    /\ fs = {}
    /\ out = NoOut
    /\ db = EmptyDb
    /\ tx = EmptyDb
    /\ proc = Idle
    /\ last = NoOp
    /\ captured = <<>>
    /\ issued = {}

(***************************************************************************)
(* Environment: the user edits the source tree or clears the output        *)
(***************************************************************************)
WriteFile(f, c) ==
    /\ proc = Idle
    /\ [path |-> f, content |-> c] \in SrcWrites \ fs
    /\ fs' = PutFile(fs, f, c)
    /\ last' = Did("env")
    /\ UNCHANGED <<out, db, tx, proc, captured, issued>>

DeleteFile(f) ==
    /\ proc = Idle
    /\ f \in PathsOf(fs)
    /\ fs' = {e \in fs : e.path # f}
    /\ last' = Did("env")
    /\ UNCHANGED <<out, db, tx, proc, captured, issued>>

RemoveOut ==
    /\ proc = Idle
    /\ out.exists
    /\ out' = NoOut
    /\ last' = Did("env")
    /\ UNCHANGED <<fs, db, tx, proc, captured, issued>>

Edit ==
    \/ \E f \in SrcFiles, c \in Contents : WriteFile(f, c)
    \/ \E f \in SrcFiles : DeleteFile(f)

(***************************************************************************)
(* Operations of BackupTool, each one whole call                           *)
(***************************************************************************)
Record(c, id, tree) ==
    [i \in DOMAIN c \cup {id} |-> IF i = id THEN tree ELSE c[i]]

Snapshot(target, timestamp, unreadable, order) ==
    /\ proc = Idle
    /\ NextRowid(db) <= MaxSnapshots
    /\ db' = SnapshotDb(db, target, timestamp, fs, order, unreadable)
    /\ tx' = db'
    /\ last' = [Did("snapshot") EXCEPT !.target = target, !.id = NextRowid(db),
                                        !.unreadable = unreadable,
                                        !.nblobs = Len(db'.blobs) - Len(db.blobs)]
    /\ captured' = Record(captured, NextRowid(db), CapturedTree(fs, target, unreadable))
    /\ issued' = issued \cup {NextRowid(db)}
    /\ UNCHANGED <<fs, out, proc>>

Prune(snapshot_id) ==
    /\ proc = Idle
    /\ db' = PruneDb(db, snapshot_id)
    /\ tx' = db'
    /\ last' = [Did("prune") EXCEPT !.id = snapshot_id,
                                     !.reported = ToDelete(db, snapshot_id),
                                     !.nblobs = Len(db.blobs) - Len(db'.blobs),
                                     !.again = Again("prune", snapshot_id)]
    /\ captured' = Restrict(captured, DOMAIN captured \cap SnapshotIds(db'))
    /\ UNCHANGED <<fs, out, proc, issued>>

Restore(snapshot_id, output_directory) ==
    /\ proc = Idle
    /\ out' = RestoreOut(db, out, snapshot_id, output_directory)
    /\ last' = [Did("restore") EXCEPT !.id = snapshot_id,
                                       !.target = output_directory,
                                       !.found = snapshot_id \in SnapshotIds(db),
                                       !.fresh = (out.files = {}),
                                       !.again = IF Again("restore", snapshot_id) = "same"
                                                 THEN "same" ELSE "no",
                                       !.missing = MissingReports(db, snapshot_id)]
    /\ UNCHANGED <<fs, db, tx, proc, captured, issued>>

SnapshotAny ==
    \E target \in Targets, timestamp \in Timestamps :
        \E unreadable \in SUBSET WalkFiles(fs, target) :
            \E order \in Orders(WalkFiles(fs, target)) :
                Snapshot(target, timestamp, unreadable, order)

PruneAny == \E snapshot_id \in 0..MaxSnapshots : Prune(snapshot_id)

RestoreAny == \E snapshot_id \in 1..MaxSnapshots : Restore(snapshot_id, OutRoot)

\* snapshot and prune commands on a source tree the user edits
Next ==
    \/ Edit
    \/ SnapshotAny
    \/ PruneAny

Spec == Init /\ [][Next]_vars

\* the same with restore into an output directory the user may remove
NextRestore ==
    \/ Edit
    \/ NextRowid(db) <= MaxRestoreSnapshots /\ SnapshotAny
    \/ PruneAny
    \/ RestoreAny
    \/ RemoveOut

SpecRestore == Init /\ [][NextRestore]_vars

\* snapshot and prune commands while the clock advances
SnapshotAtAnyTime ==
    \E target \in Targets, timestamp \in ClockReadings :
        \E unreadable \in SUBSET WalkFiles(fs, target) :
            \E order \in Orders(WalkFiles(fs, target)) :
                Snapshot(target, timestamp, unreadable, order)

NextTime ==
    \/ Edit
    \/ NextRowid(db) <= MaxTimeSnapshots /\ SnapshotAtAnyTime
    \/ PruneAny

SpecTime == Init /\ [][NextTime]_vars

\* data corruption: a blob row is lost from the database file
Corrupt(i) ==
    /\ proc = Idle
    /\ i \in 1..Len(db.blobs)
    /\ db' = [db EXCEPT !.blobs = SubSeq(@, 1, i - 1) \o SubSeq(@, i + 1, Len(@))]
    /\ tx' = db'
    /\ last' = [Did("corrupt") EXCEPT !.id = i]
    /\ UNCHANGED <<fs, out, proc, captured, issued>>

\* snapshot and restore on a store that may lose blob rows
NextCorrupt ==
    \/ Edit
    \/ NextRowid(db) <= MaxRestoreSnapshots /\ SnapshotAny
    \/ \E i \in 1..Cardinality(Contents) : Corrupt(i)
    \/ RestoreAny
    \/ RemoveOut

SpecCorrupt == Init /\ [][NextCorrupt]_vars

(***************************************************************************)
(* snapshot() statement by statement, with the process killed at any       *)
(* point.  sqlite3.connect() leaves the connection in its default          *)
(* isolation mode: the first INSERT opens a transaction implicitly and     *)
(* nothing reaches the database file before commit(); a connection that    *)
(* goes away with an open transaction is rolled back.                      *)
(***************************************************************************)
\* variant: isolation_level=None, every statement commits by itself
AfterStatementAutocommit(committed, working) == working

\* the committed database after a statement other than commit()
AfterStatement(committed, working) == committed

\* the committed database after self.conn.commit()
AfterCommit(committed, working) == working

\* variant: no write lock, statements of two connections interleave freely
NoLock == FALSE

\* the snapshot process holds the write lock of the database file: from its
\* first INSERT to commit() or to its death
SnapshotHoldsLock == proc.pc = "loop"

\* the prune process holds the write lock: from its first DELETE on
PrunerHoldsLock == proc.ppc \in {"delete_snapshots", "sweep", "commit"}

\* the snapshot part of proc when no snapshot() call is running
SnapshotIdle(p) ==
    [p EXCEPT !.pc = "idle", !.snapshot_id = 0, !.target = <<>>, !.timestamp = "",
              !.order = <<>>, !.queue = <<>>, !.unreadable = {}]

\* the prune part of proc when no prune() call is running
PrunerIdle(p) ==
    [p EXCEPT !.ppc = "idle", !.threshold = 0, !.to_delete = <<>>, !.seen_seq = 0]

\* INSERT INTO snapshots, cur.lastrowid, and the start of os.walk; the
\* INSERT waits while another connection holds the write lock
TxBegin(target, timestamp, unreadable, order) ==
    /\ proc.pc = "idle"
    /\ ~PrunerHoldsLock
    /\ NextRowid(db) <= MaxSnapshots
    /\ tx' = InsertSnapshot(tx, timestamp)
    /\ db' = AfterStatement(db, tx')
    /\ proc' = [proc EXCEPT !.pc = "loop", !.snapshot_id = NextRowid(tx),
                             !.target = target, !.timestamp = timestamp,
                             !.order = order, !.queue = order,
                             !.unreadable = unreadable]
    /\ last' = [Did("begin") EXCEPT !.id = NextRowid(tx)]
    /\ UNCHANGED <<fs, out, captured, issued>>

\* one iteration of the loop over the files
TxFile ==
    /\ proc.pc = "loop"
    /\ proc.queue # <<>>
    /\ LET f == Head(proc.queue)
       IN tx' = IF f \in proc.unreadable THEN tx
                ELSE SnapshotFile(tx, proc.snapshot_id, proc.target, f, ContentOf(fs, f))
    /\ db' = AfterStatement(db, tx')
    /\ proc' = [proc EXCEPT !.queue = Tail(@)]
    /\ last' = [Did("file") EXCEPT !.id = proc.snapshot_id]
    /\ UNCHANGED <<fs, out, captured, issued>>

\* self.conn.commit() after the loop
TxCommit ==
    /\ proc.pc = "loop"
    /\ proc.queue = <<>>
    /\ db' = AfterCommit(db, tx)
    /\ tx' = tx
    /\ proc' = SnapshotIdle(proc)
    /\ last' = [Did("snapshot") EXCEPT !.target = proc.target, !.id = proc.snapshot_id,
                                        !.unreadable = proc.unreadable,
                                        !.nblobs = Len(db'.blobs) - Len(db.blobs)]
    /\ captured' = Record(captured, proc.snapshot_id,
                          CapturedTree(fs, proc.target, proc.unreadable))
    /\ issued' = issued \cup {proc.snapshot_id}
    /\ UNCHANGED <<fs, out>>

\* the process dies (signal, uncaught exception) before commit(): the next
\* connection finds the journal and rolls the open transaction back
Kill ==
    /\ proc.pc = "loop"
    /\ tx' = db
    /\ proc' = SnapshotIdle(proc)
    /\ last' = [Did("kill") EXCEPT !.id = proc.snapshot_id,
                                    !.found = (proc.queue # <<>>),
                                    !.nblobs = Len(tx.blobs) - Len(db.blobs)]
    /\ UNCHANGED <<fs, out, db, captured, issued>>

TxBeginAny ==
    \E target \in Targets, timestamp \in Timestamps :
        \E unreadable \in SUBSET WalkFiles(fs, target) :
            \E order \in Orders(WalkFiles(fs, target)) :
                TxBegin(target, timestamp, unreadable, order)

NextTx ==
    \/ Edit
    \/ TxBeginAny
    \/ TxFile
    \/ TxCommit
    \/ Kill
    \/ PruneAny

SpecTx == Init /\ [][NextTx]_vars

\* ---------------------------------------------------------------------------
\* prune() statement by statement, in a process of its own
\* ---------------------------------------------------------------------------

MaxPruneSnapshots == 2

MaxConcSnapshots == 2

\* SELECT id FROM snapshots WHERE id <= ?: a read of the committed store
\* outside any transaction; an empty result ends the call
PxSelect(snapshot_id) ==
    /\ proc.ppc = "idle"
    /\ IF ToDelete(db, snapshot_id) = <<>>
       THEN /\ last' = [Did("prune") EXCEPT !.id = snapshot_id,
                                            !.again = Again("prune", snapshot_id)]
            /\ proc' = proc
       ELSE /\ last' = [Did("select") EXCEPT !.id = snapshot_id]
            /\ proc' = [proc EXCEPT !.ppc = "delete_files",
                                    !.threshold = snapshot_id,
                                    !.to_delete = ToDelete(db, snapshot_id),
                                    !.seen_seq = db.seq]
    /\ UNCHANGED <<fs, out, db, tx, captured, issued>>

\* DELETE FROM files WHERE snapshot_id <= ?: the first write, it opens the
\* transaction and takes the write lock
PxDeleteFiles ==
    /\ proc.ppc = "delete_files"
    /\ ~SnapshotHoldsLock
    /\ tx' = DeleteFiles(tx, proc.threshold)
    /\ db' = AfterStatement(db, tx')
    /\ proc' = [proc EXCEPT !.ppc = "delete_snapshots"]
    /\ last' = Did("delete_files")
    /\ UNCHANGED <<fs, out, captured, issued>>

\* the first DELETE while another connection holds the write lock for longer
\* than the timeout: sqlite3.OperationalError, the call ends
PxBusy ==
    /\ proc.ppc = "delete_files"
    /\ SnapshotHoldsLock
    /\ proc' = PrunerIdle(proc)
    /\ last' = [Did("prune_busy") EXCEPT !.id = proc.threshold]
    /\ UNCHANGED <<fs, out, db, tx, captured, issued>>

\* DELETE FROM snapshots WHERE id <= ?
PxDeleteSnapshots ==
    /\ proc.ppc = "delete_snapshots"
    /\ tx' = DeleteSnapshots(tx, proc.threshold)
    /\ db' = AfterStatement(db, tx')
    /\ proc' = [proc EXCEPT !.ppc = "sweep"]
    /\ last' = Did("delete_snapshots")
    /\ UNCHANGED <<fs, out, captured, issued>>

\* DELETE FROM blobs WHERE hash NOT IN (SELECT blob_hash FROM files)
PxSweep ==
    /\ proc.ppc = "sweep"
    /\ tx' = DeleteUnreferencedBlobs(tx)
    /\ db' = AfterStatement(db, tx')
    /\ proc' = [proc EXCEPT !.ppc = "commit"]
    /\ last' = Did("sweep")
    /\ UNCHANGED <<fs, out, captured, issued>>

\* conn.commit() and the report of the identifiers selected at the start
PxCommit ==
    /\ proc.ppc = "commit"
    /\ db' = AfterCommit(db, tx)
    /\ tx' = tx
    /\ proc' = PrunerIdle(proc)
    /\ last' = [Did("prune") EXCEPT !.id = proc.threshold,
                                     !.reported = proc.to_delete,
                                     !.found = (db.seq # proc.seen_seq),
                                     !.nblobs = Len(db.blobs) - Len(db'.blobs)]
    /\ captured' = Restrict(captured, DOMAIN captured \cap SnapshotIds(db'))
    /\ UNCHANGED <<fs, out, issued>>

\* the prune process dies before commit(): its open transaction, if any, is
\* rolled back
PxKill ==
    /\ proc.ppc # "idle"
    /\ tx' = IF PrunerHoldsLock THEN db ELSE tx
    /\ proc' = PrunerIdle(proc)
    /\ last' = [Did("prune_kill") EXCEPT !.id = proc.threshold,
                                          !.found = PrunerHoldsLock,
                                          !.nblobs = Len(db.blobs) - Len(tx.blobs)]
    /\ UNCHANGED <<fs, out, db, captured, issued>>

\* the INSERT of snapshot() while the prune process holds the write lock for
\* longer than the timeout: sqlite3.OperationalError, the call ends
TxBusy ==
    /\ proc.pc = "idle"
    /\ PrunerHoldsLock
    /\ last' = Did("snapshot_busy")
    /\ UNCHANGED <<fs, out, db, tx, proc, captured, issued>>

PxSelectAny == \E snapshot_id \in 0..MaxPruneSnapshots : PxSelect(snapshot_id)

PxStatement ==
    \/ PxDeleteFiles
    \/ PxDeleteSnapshots
    \/ PxSweep
    \/ PxCommit

\* whole snapshots, and a prune that can die between any two statements
NextPruneTx ==
    \/ Edit
    \/ NextRowid(db) <= MaxPruneSnapshots /\ SnapshotAny
    \/ PxSelectAny
    \/ PxStatement
    \/ PxKill

SpecPruneTx == Init /\ [][NextPruneTx]_vars

\* a snapshot process and a prune process on the same database file
NextConc ==
    \/ Edit
    \/ NextRowid(db) <= MaxConcSnapshots /\ TxBeginAny
    \/ TxBusy
    \/ TxFile
    \/ TxCommit
    \/ Kill
    \/ PxSelectAny
    \/ PxStatement
    \/ PxBusy
    \/ PxKill

SpecConc == Init /\ [][NextConc]_vars

(***************************************************************************)
(* Properties                                                              *)
(***************************************************************************)
\* the step is one call (or, in SpecTx, the commit) of the operation op
Step(op) == last'.tick # last.tick /\ last'.op = op

\* C1 -- Reference integrity: in every state reached by snapshot and prune
\* operations every file entry of an existing snapshot has a blob row for
\* its blob_hash, and prune(t) keeps every blob that a file entry of a
\* snapshot with id > t references.
C1_ReferenceIntegrity ==
    /\ [](\A f \in db.files :
            f.snapshot_id \in SnapshotIds(db) => f.blob_hash \in BlobHashes(db))
    /\ [][Step("prune") =>
            \A f \in db.files :
                f.snapshot_id > last'.id /\ f.blob_hash \in BlobHashes(db)
                    => f.blob_hash \in BlobHashes(db')]_vars

\* a prune removed snapshots and swept blobs while file entries survive
C1_Witness ==
    /\ last.op = "prune" /\ last.reported # <<>> /\ last.nblobs > 0
    /\ db.files # {}
    /\ \A f \in db.files : f.blob_hash \in BlobHashes(db)

\* C2 -- Restorability of survivors: restore(s, out) of an existing
\* snapshot into an absent or empty output directory writes exactly the
\* path -> bytes mapping captured when s was created, whatever snapshots
\* and prunes with a threshold below s came after it.
C2_RestoreOfSurvivor ==
    last.op = "restore" /\ last.found /\ last.fresh
        => /\ last.id \in DOMAIN captured
           /\ Tree(out.files, OutRoot) = captured[last.id]

\* snapshot 2 restored after prune(1): snapshot 1 is gone, files came back
C2_Witness ==
    /\ last.op = "restore" /\ last.found /\ last.fresh /\ last.id = 2
    /\ 1 \in issued /\ SnapshotIds(db) = {2}
    /\ out.files # {}
    /\ Tree(out.files, OutRoot) = captured[2]

\* C3 -- Round trip: snapshot(dir) of a tree whose files are all read,
\* followed by restore of the new id into an absent or empty output
\* directory, produces the relative paths and bytes of dir.
C3_RoundTrip ==
    [][Step("restore") /\ last.op = "snapshot" /\ last'.id = last.id
            /\ last.unreadable = {} /\ out.files = {}
        => /\ last'.found
           /\ Tree(out'.files, OutRoot) = Tree(fs, last.target)]_vars

\* both files of the source root, the nested one included, were restored
C3_Witness ==
    /\ last.op = "restore" /\ last.found /\ last.fresh
    /\ Cardinality(out.files) = 2
    /\ [path |-> <<"out", "sub", "f2">>, content |-> <<1>>] \in out.files
    /\ Tree(out.files, OutRoot) = Tree(fs, SrcRoot)

\* C4 -- Destructive prune: prune(t) removes exactly the snapshot records
\* with id <= t and all their file entries, no snapshot with id > t and no
\* file entry of one, and reports exactly the ids it removed.
C4_DestructivePrune ==
    [][Step("prune") =>
        /\ db'.snapshots = {s \in db.snapshots : s.id > last'.id}
        /\ db'.files = {f \in db.files : f.snapshot_id > last'.id}
        /\ Range(last'.reported) = SnapshotIds(db) \ SnapshotIds(db')
        /\ Len(last'.reported) = Cardinality(Range(last'.reported))]_vars

\* a prune removed some snapshots and kept a later one with its entries
C4_Witness ==
    /\ last.op = "prune" /\ last.reported # <<>>
    /\ \E s \in SnapshotIds(db) : s > last.id /\ Entries(db, s) # {}

\* C5 -- Dedup idempotence: a snapshot of the same target right after a
\* snapshot of it, nothing edited and the same files readable, leaves the
\* blob rows as they were and adds a snapshot record with the same file
\* entries.
C5_DedupIdempotence ==
    [][Step("snapshot") /\ last.op = "snapshot" /\ last'.target = last.target
            /\ last'.unreadable = last.unreadable
        => /\ db'.blobs = db.blobs
           /\ last'.id \in SnapshotIds(db') \ SnapshotIds(db)
           /\ Entries(db', last'.id) = Entries(db, last.id)
           /\ {f \in db'.files : f.snapshot_id # last'.id} = db.files]_vars

\* the second snapshot of an unchanged tree with files added no blob
C5_Witness ==
    /\ last.op = "snapshot" /\ last.id >= 2 /\ last.nblobs = 0
    /\ (last.id - 1) \in SnapshotIds(db)
    /\ Entries(db, last.id) # {}
    /\ Entries(db, last.id) = Entries(db, last.id - 1)

\* C6 -- Blob sharing: there is at most one blob row per digest, and every
\* file read into a live snapshot has a file entry whose blob_hash is the
\* digest of its bytes and names the one row holding those bytes.
C6_BlobSharing ==
    /\ \A i, j \in 1..Len(db.blobs) : db.blobs[i].hash = db.blobs[j].hash => i = j
    /\ \A s \in DOMAIN captured : \A e \in captured[s] :
        /\ <<e.path, Sha256(e.content)>> \in Entries(db, s)
        /\ Cardinality({i \in 1..Len(db.blobs) :
                            db.blobs[i].hash = Sha256(e.content)}) = 1
        /\ \A i \in 1..Len(db.blobs) :
            db.blobs[i].hash = Sha256(e.content) => db.blobs[i].content = e.content

\* two snapshots hold a file of the same content: one blob, two entries
C6_Witness ==
    /\ Len(db.blobs) = 1
    /\ \E f, g \in db.files :
        f.snapshot_id # g.snapshot_id /\ f.blob_hash = g.blob_hash
    /\ \E f, g \in db.files :
        f.snapshot_id = g.snapshot_id /\ f.path # g.path /\ f.blob_hash = g.blob_hash

\* C7 -- Snapshot identifiers: the first snapshot gets 1, each later one
\* the largest identifier ever assigned plus 1, so none is reused, also
\* after every snapshot has been pruned.
C7_FreshIdentifiers ==
    [][Step("snapshot") =>
        /\ last'.id = (IF issued = {} THEN 1 ELSE Max(issued) + 1)
        /\ last'.id \notin issued
        /\ last'.id \in SnapshotIds(db')
        /\ issued' = 1..last'.id]_vars

\* snapshot 3 was taken on a store whose snapshots 1 and 2 were all pruned
C7_Witness ==
    /\ last.op = "snapshot" /\ last.id = 3
    /\ SnapshotIds(db) = {3}
    /\ issued = {1, 2, 3}

\* C8 -- InvalidTarget: snapshot of a target that does not exist or is not
\* a directory writes nothing: no snapshot record, no identifier consumed,
\* snapshots, file entries and blobs unchanged.
C8_InvalidTargetWritesNothing ==
    [][Step("snapshot") /\ ~IsDir(fs, last'.target) => db' = db]_vars

\* C9 -- Atomic visibility: while a snapshot runs, and after it was killed,
\* the committed database holds nothing of it; the committed database
\* changes only by a prune or by the commit that ends the loop, and every
\* committed snapshot has the file entries of all the files read for it.
C9_AtomicVisibility ==
    /\ [](proc.pc # "idle" =>
            /\ proc.snapshot_id \notin SnapshotIds(db)
            /\ \A f \in db.files : f.snapshot_id # proc.snapshot_id)
    /\ [](\A s \in SnapshotIds(db) :
            /\ s \in DOMAIN captured
            /\ Entries(db, s) = {<<e.path, Sha256(e.content)>> : e \in captured[s]}
            /\ \A e \in captured[s] : Sha256(e.content) \in BlobHashes(db))
    /\ [][db' # db =>
            \/ Step("prune")
            \/ Step("snapshot") /\ proc.queue = <<>> /\ db' = tx]_vars

\* a snapshot was killed inside the loop after it had inserted a blob, and
\* the committed database has none of it
C9_Witness ==
    /\ last.op = "kill" /\ last.found /\ last.nblobs > 0
    /\ last.id \notin SnapshotIds(db)
    /\ \A f \in db.files : f.snapshot_id # last.id
    /\ tx = db

\* C10 -- Read failure isolation: a snapshot during which some files cannot
\* be read is committed with exactly the files that were read, each with
\* the digest of its bytes; a file that was not read gets no entry, and
\* the only blobs added are those of files that were read.
C10_ReadFailureIsolation ==
    [][Step("snapshot") /\ last'.unreadable # {} =>
        LET read == WalkFiles(fs, last'.target) \ last'.unreadable
        IN /\ last'.id \in SnapshotIds(db')
           /\ Entries(db', last'.id) =
                {<<SubSeq(f, Len(last'.target) + 1, Len(f)), Sha256(ContentOf(fs, f))>> :
                    f \in read}
           /\ BlobHashes(db') \ BlobHashes(db)
                \subseteq {Sha256(ContentOf(fs, f)) : f \in read}
           /\ BlobHashes(db) \subseteq BlobHashes(db')]_vars

\* one of two files could not be read: the snapshot has the other one only
C10_Witness ==
    /\ last.op = "snapshot" /\ Cardinality(last.unreadable) = 1
    /\ Cardinality(Entries(db, last.id)) = 1
    /\ last.id \in SnapshotIds(db)

\* C11 -- SnapshotNotFound: restore of an id that has no snapshot record,
\* never created or already pruned, leaves the output directory as it was
\* (not created, no file written) and the store unchanged.
C11_RestoreNotFound ==
    [][Step("restore") /\ last'.id \notin SnapshotIds(db) =>
        /\ ~last'.found
        /\ out' = out
        /\ db' = db /\ tx' = tx]_vars

\* restore of a pruned snapshot: there is still no output directory
C11_Witness ==
    /\ last.op = "restore" /\ ~last.found
    /\ last.id \in issued /\ last.id \notin SnapshotIds(db)
    /\ db.snapshots # {}
    /\ out = NoOut

\* C12 -- Prune no-op: prune(t) with no snapshot of id <= t reports nothing
\* and leaves snapshots, file entries and blobs as they are; so does
\* prune(t) right after prune(t).
C12_PruneNoOp ==
    [][Step("prune") =>
        /\ (\A s \in SnapshotIds(db) : s > last'.id)
                => last'.reported = <<>> /\ db' = db
        /\ last.op = "prune" /\ last.id = last'.id
                => last'.reported = <<>> /\ db' = db]_vars

\* prune(t) ran twice in a row on a store that once had snapshots up to t
\* and still has later ones
C12_Witness ==
    /\ last.op = "prune" /\ last.again = "same" /\ last.reported = <<>>
    /\ \E i \in issued : i <= last.id
    /\ db.snapshots # {} /\ db.blobs # <<>>

\* C17 -- No garbage blobs: the digests of the blob rows are exactly the
\* digests file entries name, and a prune whose threshold is at or above
\* every snapshot id leaves no snapshot, no file entry and no blob.
C17_NoGarbageBlobs ==
    /\ [](BlobHashes(db) = {f.blob_hash : f \in db.files})
    /\ [][Step("prune") /\ (\A s \in SnapshotIds(db) : s <= last'.id) =>
            db'.snapshots = {} /\ db'.files = {} /\ db'.blobs = <<>>]_vars

\* a prune of everything swept the blobs that were there
C17_Witness ==
    /\ last.op = "prune" /\ last.reported # <<>> /\ last.nblobs > 1
    /\ db.snapshots = {} /\ db.files = {} /\ db.blobs = <<>>

\* C18 -- Prune composition: from every reachable store, prune(a) followed
\* by prune(b) leaves what prune(max(a, b)) leaves, in either order; a
\* prune right after a prune acts as the prune with the larger threshold.
C18_PruneComposition ==
    /\ [](\A a, b \in 0..MaxSnapshots :
            PruneDb(PruneDb(db, a), b) = PruneDb(db, Max({a, b})))
    /\ [][Step("prune") /\ last.op = "prune" =>
            db' = PruneDb(db, Max({last.id, last'.id}))]_vars

\* two prunes in a row with different thresholds, the second one removed
\* snapshots above those already gone and left a later one
C18_Witness ==
    /\ last.op = "prune" /\ last.again = "other" /\ last.reported # <<>>
    /\ \E i \in issued : i < last.reported[1]
    /\ \E s \in SnapshotIds(db) : Entries(db, s) # {}

\* C15 -- Missing-blob isolation: restore of a snapshot reports each file
\* entry whose digest has no blob row, with digest and path, and writes no
\* file for it; every other entry of the snapshot is written with the bytes
\* stored under its digest.
C15_MissingBlobIsolation ==
    [][Step("restore") /\ last'.id \in SnapshotIds(db) =>
        \A f \in {g \in db.files : g.snapshot_id = last'.id} :
            LET out_path == OutRoot \o f.path
            IN IF f.blob_hash \notin BlobHashes(db)
               THEN /\ <<f.blob_hash, f.path>> \in last'.missing
                    /\ {e \in out'.files : e.path = out_path}
                            = {e \in out.files : e.path = out_path}
               ELSE /\ <<f.blob_hash, f.path>> \notin last'.missing
                    /\ \E i \in 1..Len(db.blobs) :
                        /\ db.blobs[i].hash = f.blob_hash
                        /\ [path |-> out_path, content |-> db.blobs[i].content]
                                \in out'.files]_vars

\* a snapshot of two files was restored with one blob missing: one file
\* reported and not written, the other one written
C15_Witness ==
    /\ last.op = "restore" /\ last.found /\ last.fresh
    /\ Cardinality(last.missing) = 1
    /\ Cardinality(Entries(db, last.id)) = 2
    /\ Cardinality(out.files) = 1

\* C19 -- Restore is read-only on the store: restore leaves snapshots, file
\* entries and blobs as they are, whether the snapshot exists and whether
\* blobs are missing or not, and a restore of the same snapshot right after
\* leaves the files the first one wrote.
C19_RestoreReadOnly ==
    [][Step("restore") =>
        /\ db' = db /\ tx' = tx
        /\ last.op = "restore" /\ last.id = last'.id
                => out' = out /\ last'.missing = last.missing]_vars

\* the same snapshot was restored twice in a row, with a blob missing and
\* a file written
C19_Witness ==
    /\ last.op = "restore" /\ last.again = "same" /\ last.found
    /\ last.missing # {}
    /\ out.files # {}

\* C14 -- Snapshot immutability: in every step a snapshot that stays keeps
\* its record (id and timestamp), its file entries and the blob rows they
\* name; a snapshot goes away only by a prune with a threshold at or above
\* its id; a snapshot operation leaves every existing blob row as it is,
\* and prune(t) keeps every snapshot with id > t.
C14_SnapshotImmutability ==
    [][/\ \A s \in SnapshotIds(db) :
            IF s \in SnapshotIds(db')
            THEN /\ {r \in db'.snapshots : r.id = s} = {r \in db.snapshots : r.id = s}
                 /\ Entries(db', s) = Entries(db, s)
                 /\ \A i \in 1..Len(db.blobs) :
                        (\E e \in Entries(db, s) : e[2] = db.blobs[i].hash)
                            => db.blobs[i] \in Range(db'.blobs)
            ELSE Step("prune") /\ s <= last'.id
       /\ Step("snapshot") =>
            /\ Len(db'.blobs) >= Len(db.blobs)
            /\ \A i \in 1..Len(db.blobs) : db'.blobs[i] = db.blobs[i]
       /\ Step("prune") =>
            \A s \in SnapshotIds(db) : s > last'.id => s \in SnapshotIds(db')
      ]_vars

\* a second snapshot with another timestamp and other content was taken
\* and the first one is still there with its timestamp and entries
C14_Witness ==
    /\ last.op = "snapshot" /\ last.id = 2 /\ last.nblobs > 0
    /\ db.snapshots = {[id |-> 1, timestamp |-> "t1"], [id |-> 2, timestamp |-> "t2"]}
    /\ Entries(db, 1) # {}
    /\ Entries(db, 1) # Entries(db, 2)

\* C13 -- Prune atomicity: while prune(t) runs statement by statement and
\* when its process is killed after any statement, the committed store
\* stays the complete pre-prune state; it changes by a prune only at
\* commit(), and then to the complete post-prune state. In every committed
\* state each snapshot record has the entries of the files read for it and
\* each file entry names an existing snapshot and a present blob.
C13_PruneAtomicity ==
    /\ [][db' # db =>
            \/ Step("snapshot")
            \/ /\ Step("prune")
               /\ proc.ppc = "commit"
               /\ db' = PruneDb(db, proc.threshold)]_vars
    /\ [][Step("prune_kill") => db' = db /\ tx' = db]_vars
    /\ [](\A s \in SnapshotIds(db) :
            /\ s \in DOMAIN captured
            /\ {e[1] : e \in Entries(db, s)} = {e.path : e \in captured[s]})
    /\ [](\A f \in db.files :
            /\ f.snapshot_id \in SnapshotIds(db)
            /\ f.blob_hash \in BlobHashes(db))

\* a prune was killed after its blob sweep, inside its transaction, and
\* the committed store still has a snapshot it was deleting, entries included
C13_Witness ==
    /\ last.op = "prune_kill" /\ last.found /\ last.nblobs > 0
    /\ \E s \in SnapshotIds(db) : s <= last.id /\ Entries(db, s) # {}
    /\ \A f \in db.files : f.blob_hash \in BlobHashes(db)
    /\ tx = db

\* C16 -- Concurrent snapshot and prune: in every interleaving the write
\* lock allows, the committed store never holds a part of a running
\* snapshot, every committed snapshot has exactly the entries of the files
\* read for it, every file entry names an existing snapshot and a present
\* blob, and a prune that commits keeps every snapshot above its threshold,
\* the one created meanwhile included, with its entries and their blobs.
C16_ConcurrentSnapshotAndPrune ==
    /\ [](proc.pc = "loop" =>
            /\ proc.snapshot_id \notin SnapshotIds(db)
            /\ \A f \in db.files : f.snapshot_id # proc.snapshot_id)
    /\ [](\A s \in SnapshotIds(db) :
            /\ s \in DOMAIN captured
            /\ Entries(db, s) = {<<e.path, Sha256(e.content)>> : e \in captured[s]})
    /\ [](\A f \in db.files :
            /\ f.snapshot_id \in SnapshotIds(db)
            /\ f.blob_hash \in BlobHashes(db))
    /\ [][Step("prune") =>
            \A s \in SnapshotIds(db) :
                s > last'.id =>
                    /\ s \in SnapshotIds(db')
                    /\ Entries(db', s) = Entries(db, s)
                    /\ \A e \in Entries(db, s) : e[2] \in BlobHashes(db')]_vars

\* a snapshot was committed between the SELECT and the commit of a prune
\* that swept a blob; the new snapshot is above the threshold and is there
\* with its entries and their blobs
C16_Witness ==
    /\ last.op = "prune" /\ last.found /\ last.nblobs > 0
    /\ proc = Idle
    /\ db.seq \in SnapshotIds(db)
    /\ db.seq > last.id
    /\ Entries(db, db.seq) # {}
    /\ \A e \in Entries(db, db.seq) : e[2] \in BlobHashes(db)

====
